---- MODULE Spec2Model ----
(***************************************************************************)
(* Model of backend/plannerLogic.js: generatePlan, the rule-based          *)
(* 8-semester course scheduler, as a state machine whose steps are the     *)
(* loop iterations of the function, and getRequirements, the resolver of    *)
(* the selected programs, whose steps are its database queries.            *)
(*                                                                         *)
(* A course record is [course_id, credits, prerequisites,                  *)
(* semesters_offered]; the display name of a course is copied to the slot  *)
(* unchanged and is left out.  An absent (null/undefined) array field is   *)
(* NULL, a value that is no array of identifiers or semester labels.       *)
(***************************************************************************)
EXTENDS Integers, Sequences, FiniteSets, TLC

VARIABLES
    requirements,           \* argument: sequence of [options_pool]
    catalog,                \* argument: sequence of course records
    completedCourses,       \* argument: sequence of course ids
    startYear,              \* argument
    pc,                     \* position in generatePlan
    coursePool,             \* let coursePool (line 93)
    prereqStatus,           \* const prereqStatus: Map course_id -> count (line 96)
    ci,                     \* position of completedCourses.forEach (line 99)
    year,                   \* for (let year ...) (line 117)
    semesterIndex,          \* for (let semesterIndex ...) (line 118)
    scheduleSlot,           \* const scheduleSlot (line 122)
    eligibleCourses,        \* const eligibleCourses (line 130)
    ei,                     \* position of for (const course of eligibleCourses)
    scheduledThisSemester,  \* const scheduledThisSemester (line 149)
    ui,                     \* position of scheduledThisSemester.forEach (line 163)
    schedule,               \* const schedule (line 113)
    result,                 \* the returned plan, NoPlan until generatePlan returns
    runs,                   \* number of calls of generatePlan started so far
    prevResult,             \* the plan returned by the previous call, or NoPlan
    major,                  \* getRequirements: argument
    minor,                  \* getRequirements: argument
    concentration,          \* getRequirements: argument
    db,                     \* the tables Programs, Requirements and Courses
    rpc,                    \* position in getRequirements
    programs,               \* const programs (line 10)
    ids,                    \* const ids (line 17)
    requirementsResult,     \* requirementsResult.rows (line 30)
    courseCatalogResult,    \* courseCatalogResult.rows (line 33)
    queries,                \* the queries sent to db.query so far
    outcome                 \* what getRequirements returned or threw

inputs == <<requirements, catalog, completedCourses, startYear>>

locals == <<coursePool, prereqStatus, ci, year, semesterIndex, scheduleSlot,
            eligibleCourses, ei, scheduledThisSemester, ui, schedule>>

resolver == <<major, minor, concentration, db, rpc, programs, ids,
              requirementsResult, courseCatalogResult, queries, outcome>>

vars == <<requirements, catalog, completedCourses, startYear, pc, coursePool,
          prereqStatus, ci, year, semesterIndex, scheduleSlot, eligibleCourses,
          ei, scheduledThisSemester, ui, schedule, result, runs, prevResult,
          resolver>>

NULL == <<"null">>

\* The value of result before generatePlan has returned.
NoPlan == [schedule |-> <<>>, unmet_requirements |-> <<>>, message |-> -1]

(***************************************************************************)
(* Program constants.                                                      *)
(***************************************************************************)
MAX_CREDITS == 16

NumYears == 4

semesters == <<"Fall", "Spring">>

(***************************************************************************)
(* Bounds of the model.                                                    *)
(***************************************************************************)
MaxCompleted == 2

MaxRuns == 2

(***************************************************************************)
(* Helpers of the JavaScript runtime.                                      *)
(***************************************************************************)
\* Array.prototype.includes
Includes(list, x) == \E i \in 1..Len(list) : list[i] = x

\* The elements of an array, as a set.
Range(list) == {list[i] : i \in 1..Len(list)}

\* courseLookup.has(id): the Map built from the catalog has the key.
CatalogHas(id) == \E i \in 1..Len(catalog) : catalog[i].course_id = id

\* courseLookup.get(id): new Map(pairs) keeps the last pair of a repeated key.
courseLookup(id) ==
    catalog[CHOOSE i \in 1..Len(catalog) :
                /\ catalog[i].course_id = id
                /\ \A j \in (i+1)..Len(catalog) : catalog[j].course_id # id]

(***************************************************************************)
(* initializePrereqStatus: one Map.set per catalog entry, in order, so a   *)
(* repeated course_id keeps the count of its last entry.                   *)
(***************************************************************************)
PrereqsOrEmpty(course) ==
    IF course.prerequisites = NULL THEN <<>> ELSE course.prerequisites

\* Mutant: only the prerequisites that are catalog courses are counted.
initializePrereqStatusKnown(cat) ==
    [id \in {cat[i].course_id : i \in 1..Len(cat)} |->
        LET last == CHOOSE i \in 1..Len(cat) :
                        /\ cat[i].course_id = id
                        /\ \A j \in (i+1)..Len(cat) : cat[j].course_id # id
            prereqs == PrereqsOrEmpty(cat[last])
        IN  Cardinality({k \in 1..Len(prereqs) :
                            \E i \in 1..Len(cat) : cat[i].course_id = prereqs[k]})]

\* Mutant: the counters are a module-level Map, filled only while it is empty.
initializePrereqStatusOnce(cat) ==
    IF DOMAIN prereqStatus # {} THEN prereqStatus
    ELSE [id \in {cat[i].course_id : i \in 1..Len(cat)} |->
             Len(PrereqsOrEmpty(cat[CHOOSE i \in 1..Len(cat) :
                 /\ cat[i].course_id = id
                 /\ \A j \in (i+1)..Len(cat) : cat[j].course_id # id]))]

initializePrereqStatus(cat) ==
    [id \in {cat[i].course_id : i \in 1..Len(cat)} |->
        LET last == CHOOSE i \in 1..Len(cat) :
                        /\ cat[i].course_id = id
                        /\ \A j \in (i+1)..Len(cat) : cat[j].course_id # id
        IN  Len(PrereqsOrEmpty(cat[last]))]

(***************************************************************************)
(* Requirement resolution: requiredCourseIDs is a Set, which keeps the     *)
(* order of first insertion; it is modelled as a sequence without          *)
(* repetition.                                                             *)
(***************************************************************************)
SetAdd(set, id) == IF Includes(set, id) THEN set ELSE Append(set, id)

\* Mutant: an identifier is added without the catalog lookup of line 83.
RECURSIVE AddOptionsUnchecked(_, _)
AddOptionsUnchecked(set, pool) ==
    IF pool = <<>> THEN set
    ELSE AddOptionsUnchecked(SetAdd(set, Head(pool)), Tail(pool))

RECURSIVE AddOptions(_, _)
AddOptions(set, pool) ==
    IF pool = <<>> THEN set
    ELSE AddOptions(IF CatalogHas(Head(pool)) THEN SetAdd(set, Head(pool)) ELSE set,
                    Tail(pool))

RECURSIVE AddRequirements(_, _)
AddRequirements(set, reqs) ==
    IF reqs = <<>> THEN set
    ELSE AddRequirements(IF Head(reqs).options_pool # NULL
                             THEN AddOptions(set, Head(reqs).options_pool)
                             ELSE set,
                         Tail(reqs))

\* Mutant: completed courses stay in the required set.
DeleteNothing(set) == set

\* completedCourses.forEach(id => requiredCourseIDs.delete(id))
DeleteCompleted(set) ==
    SelectSeq(set, LAMBDA id : ~Includes(completedCourses, id))

\* Array.from(requiredCourseIDs) after lines 79-90
requiredCourseIDs == DeleteCompleted(AddRequirements(<<>>, requirements))

(***************************************************************************)
(* catalog.forEach(course => if (course.prerequisites &&                   *)
(*   course.prerequisites.includes(id)) prereqStatus.set(course.course_id, *)
(*   prereqStatus.get(course.course_id) - 1)): one decrement per catalog   *)
(* entry that lists id.                                                    *)
(***************************************************************************)
DecrementDependents(status, id) ==
    [c \in DOMAIN status |->
        status[c] - Cardinality({j \in 1..Len(catalog) :
                                    /\ catalog[j].course_id = c
                                    /\ catalog[j].prerequisites # NULL
                                    /\ Includes(catalog[j].prerequisites, id)})]

(***************************************************************************)
(* The eligibility filter and the sort of lines 130-146.                   *)
(***************************************************************************)
\* Mutant: any offering term will do.
IsOfferedSomeTerm(course, sem) ==
    /\ course.semesters_offered # NULL
    /\ course.semesters_offered # <<>>

IsOffered(course, sem) ==
    /\ course.semesters_offered # NULL
    /\ Includes(course.semesters_offered, sem)

PrereqsMet(course) == prereqStatus[course.course_id] = 0

IsEligible(course, sem) == IsOffered(course, sem) /\ PrereqsMet(course)

\* Mutant: the eligible courses are left in the order of the pool.
CompareNothing(a, b) == 0

\* The comparator a.semesters_offered.length - b.semesters_offered.length
Compare(a, b) == Len(a.semesters_offered) - Len(b.semesters_offered)

\* Array.prototype.sort is stable: c goes after every element not greater.
\* Mutant: a sort that is not stable, it puts a course before its equals.
RECURSIVE UnstableInsert(_, _)
UnstableInsert(sorted, c) ==
    IF sorted = <<>> THEN <<c>>
    ELSE LET n == Len(sorted) IN
         IF Compare(sorted[n], c) < 0 THEN Append(sorted, c)
         ELSE Append(UnstableInsert(SubSeq(sorted, 1, n-1), c), sorted[n])

RECURSIVE StableInsert(_, _)
StableInsert(sorted, c) ==
    IF sorted = <<>> THEN <<c>>
    ELSE LET n == Len(sorted) IN
         IF Compare(sorted[n], c) <= 0 THEN Append(sorted, c)
         ELSE Append(StableInsert(SubSeq(sorted, 1, n-1), c), sorted[n])

RECURSIVE SortCourses(_)
SortCourses(list) ==
    IF list = <<>> THEN <<>>
    ELSE LET n == Len(list) IN
         StableInsert(SortCourses(SubSeq(list, 1, n-1)), list[n])

EligibleCourses(pool, sem) ==
    SortCourses(SelectSeq([i \in 1..Len(pool) |-> courseLookup(pool[i])],
                          LAMBDA course : IsEligible(course, sem)))

\* Mutant: the running total is checked before the course is added.
FitsBeforeAdding(slot, course) == slot.credits <= MAX_CREDITS

\* Mutant: the cap is checked against the course alone.
FitsAlone(slot, course) == course.credits <= MAX_CREDITS

\* Mutant: a course that would fill the slot exactly to the cap is refused.
FitsBelowCap(slot, course) == slot.credits + course.credits < MAX_CREDITS

\* The credit cap check of line 151
Fits(slot, course) == slot.credits + course.credits <= MAX_CREDITS

\* Mutant: a scheduled course stays in the pool.
RemoveNothing(pool, scheduledId) == pool

\* coursePool.filter(id => id !== scheduledId)
RemoveFromPool(pool, scheduledId) ==
    SelectSeq(pool, LAMBDA id : id # scheduledId)

EmptySlot == [year |-> 0, semester |-> "", courses |-> <<>>, credits |-> 0]

(***************************************************************************)
(* generatePlan, step by step.                                             *)
(***************************************************************************)
\* Lines 74-96 and the initialisations of lines 112-118.
Resolve ==
    /\ pc = "start"
    /\ coursePool' = requiredCourseIDs
    /\ prereqStatus' = initializePrereqStatus(catalog)
    /\ ci' = 1
    /\ schedule' = <<>>
    /\ year' = 0
    /\ semesterIndex' = 0
    /\ pc' = IF completedCourses = <<>> THEN "term" ELSE "preseed"
    /\ UNCHANGED <<resolver, inputs, scheduleSlot, eligibleCourses, ei,
                   scheduledThisSemester, ui, result, runs, prevResult>>

\* One iteration of completedCourses.forEach (lines 99-109).
PreSeed ==
    /\ pc = "preseed"
    /\ LET completedId == completedCourses[ci] IN
       prereqStatus' = IF CatalogHas(completedId)
                           THEN DecrementDependents(prereqStatus, completedId)
                           ELSE prereqStatus
    /\ ci' = ci + 1
    /\ pc' = IF ci = Len(completedCourses) THEN "term" ELSE "preseed"
    /\ UNCHANGED <<resolver, inputs, coursePool, year, semesterIndex, scheduleSlot,
                   eligibleCourses, ei, scheduledThisSemester, ui, schedule,
                   result, runs, prevResult>>

\* The increments of both loops after an iteration of the inner one.
LastSemester == semesterIndex + 1 >= Len(semesters)

NextYear == IF LastSemester THEN year + 1 ELSE year

NextSemesterIndex == IF LastSemester THEN 0 ELSE semesterIndex + 1

\* Mutant: the slot of a term without scheduled course is not pushed.
PushIfScheduled(slot) ==
    /\ schedule' = IF slot.courses = <<>> THEN schedule ELSE Append(schedule, slot)
    /\ semesterIndex' = NextSemesterIndex
    /\ year' = NextYear
    /\ pc' = IF NextYear < NumYears THEN "term" ELSE "return"

\* Mutant: a term without scheduled course and with courses left in the pool
\* ends the run (the break that lines 180-182 leave out).
PushOrBreak(slot) ==
    /\ schedule' = Append(schedule, slot)
    /\ semesterIndex' = NextSemesterIndex
    /\ year' = NextYear
    /\ pc' = IF slot.courses = <<>> /\ coursePool # <<>> THEN "return"
             ELSE IF NextYear < NumYears THEN "term" ELSE "return"

\* schedule.push(scheduleSlot) (line 175), and on to the next term.
Push(slot) ==
    /\ schedule' = Append(schedule, slot)
    /\ semesterIndex' = NextSemesterIndex
    /\ year' = NextYear
    /\ pc' = IF NextYear < NumYears THEN "term" ELSE "return"

\* Mutant: the sort of line 141 is applied to the catalog itself, in place.
BeginTermSortingCatalog ==
    /\ pc = "term"
    /\ LET currentSemester == semesters[semesterIndex + 1]
           eligible == EligibleCourses(coursePool, currentSemester)
           slot == [year |-> startYear + year,
                    semester |-> currentSemester,
                    courses |-> <<>>,
                    credits |-> 0]
       IN  /\ scheduleSlot' = slot
           /\ eligibleCourses' = eligible
           /\ \/ /\ eligible # <<>>
                 /\ pc' = "schedule"
                 /\ UNCHANGED <<schedule, year, semesterIndex>>
              \/ /\ eligible = <<>>
                 /\ Push(slot)
    /\ scheduledThisSemester' = <<>>
    /\ ei' = 1
    /\ ui' = 1
    /\ catalog' = SortCourses(catalog)
    /\ UNCHANGED <<resolver, requirements, completedCourses, startYear, coursePool, prereqStatus, ci, result, runs, prevResult>>

\* Lines 119-149: the new slot, the eligible courses, filtered and sorted.
\* With no eligible course both loops of lines 150-173 have no iteration and
\* the slot is pushed as it is.
BeginTerm ==
    /\ pc = "term"
    /\ LET currentSemester == semesters[semesterIndex + 1]
           eligible == EligibleCourses(coursePool, currentSemester)
           slot == [year |-> startYear + year,
                    semester |-> currentSemester,
                    courses |-> <<>>,
                    credits |-> 0]
       IN  /\ scheduleSlot' = slot
           /\ eligibleCourses' = eligible
           /\ \/ /\ eligible # <<>>
                 /\ pc' = "schedule"
                 /\ UNCHANGED <<schedule, year, semesterIndex>>
              \/ /\ eligible = <<>>
                 /\ Push(slot)
    /\ scheduledThisSemester' = <<>>
    /\ ei' = 1
    /\ ui' = 1
    /\ UNCHANGED <<resolver, inputs, coursePool, prereqStatus, ci, result, runs, prevResult>>

\* Mutant: the loop stops at the first course that does not fit.
ScheduleCourseOrBreak ==
    /\ pc = "schedule"
    /\ LET course == eligibleCourses[ei] IN
       \/ /\ Fits(scheduleSlot, course)
          /\ scheduleSlot' =
                [scheduleSlot EXCEPT
                    !.courses = Append(@, [id |-> course.course_id,
                                           credits |-> course.credits]),
                    !.credits = @ + course.credits]
          /\ scheduledThisSemester' =
                Append(scheduledThisSemester, course.course_id)
          /\ ei' = ei + 1
       \/ /\ ~Fits(scheduleSlot, course)
          /\ ei' = Len(eligibleCourses) + 1
          /\ UNCHANGED <<scheduleSlot, scheduledThisSemester>>
    /\ pc' = IF ei' <= Len(eligibleCourses) THEN "schedule"
             ELSE IF scheduledThisSemester' = <<>> THEN "push" ELSE "update"
    /\ UNCHANGED <<resolver, inputs, coursePool, prereqStatus, ci, year, semesterIndex,
                   eligibleCourses, ui, schedule, result, runs, prevResult>>

\* One iteration of for (const course of eligibleCourses) (lines 150-160).
ScheduleCourse ==
    /\ pc = "schedule"
    /\ LET course == eligibleCourses[ei] IN
       \/ /\ Fits(scheduleSlot, course)
          /\ scheduleSlot' =
                [scheduleSlot EXCEPT
                    !.courses = Append(@, [id |-> course.course_id,
                                           credits |-> course.credits]),
                    !.credits = @ + course.credits]
          /\ scheduledThisSemester' =
                Append(scheduledThisSemester, course.course_id)
       \/ /\ ~Fits(scheduleSlot, course)
          /\ UNCHANGED <<scheduleSlot, scheduledThisSemester>>
    /\ ei' = ei + 1
    /\ pc' = IF ei < Len(eligibleCourses) THEN "schedule"
             ELSE IF scheduledThisSemester' = <<>> THEN "push" ELSE "update"
    /\ UNCHANGED <<resolver, inputs, coursePool, prereqStatus, ci, year, semesterIndex,
                   eligibleCourses, ui, schedule, result, runs, prevResult>>

\* One iteration of scheduledThisSemester.forEach (lines 163-173).
UpdateState ==
    /\ pc = "update"
    /\ LET scheduledId == scheduledThisSemester[ui] IN
       /\ coursePool' = RemoveFromPool(coursePool, scheduledId)
       /\ prereqStatus' = DecrementDependents(prereqStatus, scheduledId)
    /\ ui' = ui + 1
    /\ pc' = IF ui < Len(scheduledThisSemester) THEN "update" ELSE "push"
    /\ UNCHANGED <<resolver, inputs, ci, year, semesterIndex, scheduleSlot,
                   eligibleCourses, ei, scheduledThisSemester, schedule,
                   result, runs, prevResult>>

\* The slot of a term with eligible courses is pushed after the loops.
PushSlot ==
    /\ pc = "push"
    /\ Push(scheduleSlot)
    /\ UNCHANGED <<resolver, inputs, coursePool, prereqStatus, ci, scheduleSlot,
                   eligibleCourses, ei, scheduledThisSemester, ui, result,
                   runs, prevResult>>

\* Lines 187-194.  The reason of an unmet requirement is a constant string and
\* the message is a template around coursePool.length.
Return ==
    /\ pc = "return"
    /\ result' = [schedule |-> schedule,
                  unmet_requirements |-> coursePool,
                  message |-> Len(coursePool)]
    /\ pc' = "done"
    /\ UNCHANGED <<resolver, inputs, locals, runs, prevResult>>

\* generatePlan is called again with the same arguments.  The variables of the
\* finished call keep their last values: a call reads a local only after it
\* has assigned it.
Rerun ==
    /\ pc = "done"
    /\ runs < MaxRuns
    /\ prevResult' = result
    /\ result' = NoPlan
    /\ runs' = runs + 1
    /\ pc' = "start"
    /\ UNCHANGED <<resolver, inputs, locals>>

(***************************************************************************)
(* getRequirements (lines 8-39).  db.query is the data-access layer; a      *)
(* query is modelled by what its SQL text selects from the tables.         *)
(***************************************************************************)
\* A null or undefined argument.
NoName == "<null>"

\* Boolean(name) of [major, minor, concentration].filter(Boolean) (line 10).
Truthy(name) == name # NoName /\ name # ""

\* SELECT program_id FROM Programs WHERE name = ANY($1) (line 14).
ProgramIdRows(names) ==
    SelectSeq(db.Programs, LAMBDA p : Includes(names, p.name))

ProgramName(id) ==
    (CHOOSE p \in Range(db.Programs) : p.program_id = id).name

\* SELECT r.*, p.name AS program_name FROM Requirements r JOIN Programs p
\* ON r.program_id = p.program_id WHERE r.program_id = ANY($1) (lines 24-29).
RequirementRows(programIds) ==
    LET selected ==
            SelectSeq(db.Requirements,
                      LAMBDA r : /\ Includes(programIds, r.program_id)
                                 /\ \E p \in Range(db.Programs) :
                                        p.program_id = r.program_id)
    IN  [k \in 1..Len(selected) |->
            [requirement_id |-> selected[k].requirement_id,
             program_id |-> selected[k].program_id,
             program_name |-> ProgramName(selected[k].program_id)]]

\* What the function has produced: nothing yet, an error or a value.
NoOutcome == [kind |-> "none", message |-> "", requirements |-> <<>>,
              catalog |-> <<>>]

Thrown(message) == [kind |-> "Error", message |-> message,
                    requirements |-> <<>>, catalog |-> <<>>]

Returned(reqs, cat) == [kind |-> "value", message |-> "",
                        requirements |-> reqs, catalog |-> cat]

\* Mutant: the function gives up only when no program name was supplied.
NoProgramSupplied(names, programIds) == Len(names) = 0

\* ids.length === 0 (line 19).
NoProgramFound(names, programIds) == Len(programIds) = 0

\* Lines 10-21: the program names, the first query and the check of its rows.
GetProgramIds ==
    /\ rpc = "start"
    /\ LET names == SelectSeq(<<major, minor, concentration>>, Truthy)
           rows == ProgramIdRows(names)
           programIds == [k \in 1..Len(rows) |-> rows[k].program_id]
       IN  /\ programs' = names
           /\ queries' = Append(queries, "programIds")
           /\ ids' = programIds
           /\ \/ /\ NoProgramFound(names, programIds)
                 /\ outcome' =
                       Thrown("No programs found for the selected options.")
                 /\ rpc' = "thrown"
              \/ /\ ~NoProgramFound(names, programIds)
                 /\ outcome' = outcome
                 /\ rpc' = "requirements"
    /\ UNCHANGED <<major, minor, concentration, db, requirementsResult,
                   courseCatalogResult>>
    /\ UNCHANGED <<inputs, locals, pc, result, runs, prevResult>>

\* Lines 24-30.
GetRequirementRows ==
    /\ rpc = "requirements"
    /\ queries' = Append(queries, "requirements")
    /\ requirementsResult' = RequirementRows(ids)
    /\ rpc' = "catalog"
    /\ UNCHANGED <<major, minor, concentration, db, programs, ids,
                   courseCatalogResult, outcome>>
    /\ UNCHANGED <<inputs, locals, pc, result, runs, prevResult>>

\* Line 33: SELECT * FROM Courses.
GetCatalog ==
    /\ rpc = "catalog"
    /\ queries' = Append(queries, "catalog")
    /\ courseCatalogResult' = db.Courses
    /\ rpc' = "return"
    /\ UNCHANGED <<major, minor, concentration, db, programs, ids,
                   requirementsResult, outcome>>
    /\ UNCHANGED <<inputs, locals, pc, result, runs, prevResult>>

\* Lines 35-38.
ReturnRequirements ==
    /\ rpc = "return"
    /\ outcome' = Returned(requirementsResult, courseCatalogResult)
    /\ rpc' = "done"
    /\ UNCHANGED <<major, minor, concentration, db, programs, ids,
                   requirementsResult, courseCatalogResult, queries>>
    /\ UNCHANGED <<inputs, locals, pc, result, runs, prevResult>>

\* The arguments of getRequirements and the tables.
ProgramNames == {NoName, "", "Computer Science", "Mathematics", "Art"}

ProgramRow(id, name) == [program_id |-> id, name |-> name]

ProgramTables ==
    {<<>>,
     <<ProgramRow(1, "Computer Science")>>,
     <<ProgramRow(2, "Mathematics")>>,
     <<ProgramRow(2, "Mathematics"), ProgramRow(1, "Computer Science")>>}

RequirementRow(id, program) == [requirement_id |-> id, program_id |-> program]

\* The row of program 3 belongs to a program that is no longer in Programs.
RequirementTables ==
    {<<>>,
     <<RequirementRow(1, 1)>>,
     <<RequirementRow(1, 1), RequirementRow(2, 2), RequirementRow(3, 1)>>,
     <<RequirementRow(1, 2), RequirementRow(2, 3)>>}

CourseTables ==
    {<<>>,
     <<[course_id |-> "X", credits |-> 7, prerequisites |-> <<>>,
        semesters_offered |-> <<"Fall">>]>>,
     <<[course_id |-> "X", credits |-> 7, prerequisites |-> <<>>,
        semesters_offered |-> <<"Fall">>],
       [course_id |-> "Y", credits |-> 9, prerequisites |-> <<"X">>,
        semesters_offered |-> NULL]>>}

\* getRequirements is not being called.
ResolverIdle ==
    /\ major = NoName
    /\ minor = NoName
    /\ concentration = NoName
    /\ db = [Programs |-> <<>>, Requirements |-> <<>>, Courses |-> <<>>]
    /\ rpc = "idle"
    /\ programs = <<>>
    /\ ids = <<>>
    /\ requirementsResult = <<>>
    /\ courseCatalogResult = <<>>
    /\ queries = <<>>
    /\ outcome = NoOutcome

\* A call of getRequirements; generatePlan is not being called.
InitResolver ==
    /\ major \in ProgramNames
    /\ minor \in ProgramNames
    /\ concentration \in ProgramNames
    /\ db \in [Programs : ProgramTables, Requirements : RequirementTables,
               Courses : CourseTables]
    /\ rpc = "start"
    /\ programs = <<>>
    /\ ids = <<>>
    /\ requirementsResult = <<>>
    /\ courseCatalogResult = <<>>
    /\ queries = <<>>
    /\ outcome = NoOutcome
    /\ requirements = <<>>
    /\ catalog = <<>>
    /\ completedCourses = <<>>
    /\ startYear = 2024
    /\ pc = "idle"
    /\ coursePool = <<>>
    /\ prereqStatus = <<>>
    /\ ci = 1
    /\ year = 0
    /\ semesterIndex = 0
    /\ scheduleSlot = EmptySlot
    /\ eligibleCourses = <<>>
    /\ ei = 1
    /\ scheduledThisSemester = <<>>
    /\ ui = 1
    /\ schedule = <<>>
    /\ result = NoPlan
    /\ runs = 1
    /\ prevResult = NoPlan

NextResolver ==
    \/ GetProgramIds
    \/ GetRequirementRows
    \/ GetCatalog
    \/ ReturnRequirements

SpecResolver == InitResolver /\ [][NextResolver]_vars

(***************************************************************************)
(* The arguments of a call.                                                *)
(***************************************************************************)
CourseIds == {"X", "Y", "Z"}

OneRequirement(pool) == [options_pool |-> pool]

\* All three identifiers in one requirement; a requirement without
\* options_pool and an identifier named by two requirements; one identifier
\* only; two requirements in the opposite order of identifiers.
RequirementLists ==
    {<<OneRequirement(<<"X", "Y", "Z">>)>>,
     <<OneRequirement(NULL), OneRequirement(<<"Y">>), OneRequirement(<<"Y", "X">>)>>,
     <<OneRequirement(<<"Y">>)>>,
     <<OneRequirement(<<"Z", "Y">>), OneRequirement(<<"X">>)>>}

\* completedCourses: at most MaxCompleted identifiers, repetitions included,
\* listed in alphabetical order.
IdRank(id) == CASE id = "X" -> 1 [] id = "Y" -> 2 [] id = "Z" -> 3

CompletedLists ==
    {list \in UNION {[1..n -> CourseIds] : n \in 0..MaxCompleted} :
        \A i \in 1..(Len(list) - 1) : IdRank(list[i]) <= IdRank(list[i + 1])}

SemesterLists ==
    {NULL, <<>>, <<"Fall">>, <<"Spring">>, <<"Fall", "Spring">>}

PrereqLists ==
    {NULL, <<>>, <<"X">>, <<"Y">>, <<"Z">>, <<"X", "X">>, <<"X", "Y">>,
     <<"X", "Z">>}

\* Catalogs of at most two entries (the second a course Y or a repeated X)
\* of 7 credits each, offered in one term, with every prerequisite list; Z is
\* in no such catalog.
DependencyCourses(id) ==
    [course_id : {id}, credits : {7}, prerequisites : PrereqLists,
     semesters_offered : {<<"Fall">>, <<"Spring">>}]

DependencyCatalogs ==
    {<<>>}
    \cup {<<x>> : x \in DependencyCourses("X")}
    \cup {<<x, y>> : x \in DependencyCourses("X"),
                     y \in DependencyCourses("X") \cup DependencyCourses("Y")}

\* Catalogs of a course X and a course Y of 20 credits, more than MAX_CREDITS,
\* with every prerequisite list and offering list.
OversizedCatalogs ==
    {<<x, y>> :
        x \in [course_id : {"X"}, credits : {7}, prerequisites : {<<>>},
               semesters_offered : {<<"Fall">>}],
        y \in [course_id : {"Y"}, credits : {20}, prerequisites : PrereqLists,
               semesters_offered : SemesterLists]}

\* Catalogs of three courses without prerequisites, with every credit value
\* (20 exceeds MAX_CREDITS alone, 7 + 9 = MAX_CREDITS) and offering list.
CreditValues == {7, 9, 20}

LoadCourses(id) ==
    [course_id : {id}, credits : CreditValues, prerequisites : {<<>>},
     semesters_offered : SemesterLists]

LoadCatalogs ==
    {<<x, y, z>> : x \in LoadCourses("X"), y \in LoadCourses("Y"),
                   z \in LoadCourses("Z")}

StartYears == {2024, 2025}

InitInputs ==
    /\ requirements \in RequirementLists
    /\ \/ /\ catalog \in DependencyCatalogs \cup OversizedCatalogs
          /\ completedCourses \in CompletedLists
          /\ startYear = 2024
       \/ /\ catalog \in LoadCatalogs
          /\ completedCourses = <<>>
          /\ startYear \in StartYears

Init ==
    /\ InitInputs
    /\ ResolverIdle
    /\ pc = "start"
    /\ coursePool = <<>>
    /\ prereqStatus = <<>>
    /\ ci = 1
    /\ year = 0
    /\ semesterIndex = 0
    /\ scheduleSlot = EmptySlot
    /\ eligibleCourses = <<>>
    /\ ei = 1
    /\ scheduledThisSemester = <<>>
    /\ ui = 1
    /\ schedule = <<>>
    /\ result = NoPlan
    /\ runs = 1
    /\ prevResult = NoPlan

Next ==
    \/ Resolve
    \/ PreSeed
    \/ BeginTerm
    \/ ScheduleCourse
    \/ UpdateState
    \/ PushSlot
    \/ Return

Spec == Init /\ [][Next]_vars

\* generatePlan is synchronous and runs to completion once called.
FairSpec == Spec /\ WF_vars(Next)

NextRerun == Next \/ Rerun

SpecRerun == Init /\ [][NextRerun]_vars

\* The permutations of the requirements that a second call is given: the
\* requirements in the opposite order, the identifiers of every options_pool
\* in the opposite order, or both.
ReverseSeq(list) == [k \in 1..Len(list) |-> list[Len(list) + 1 - k]]

ReversePools(reqs) ==
    [k \in 1..Len(reqs) |->
        IF reqs[k].options_pool = NULL THEN reqs[k]
        ELSE OneRequirement(ReverseSeq(reqs[k].options_pool))]

Permuted(reqs) ==
    {ReverseSeq(reqs), ReversePools(reqs), ReverseSeq(ReversePools(reqs))}

\* generatePlan is called a second time with the requirements permuted and
\* the other arguments unchanged.
RerunPermuted ==
    /\ pc = "done"
    /\ runs = 1
    /\ requirements' \in Permuted(requirements)
    /\ prevResult' = result
    /\ result' = NoPlan
    /\ runs' = runs + 1
    /\ pc' = "start"
    /\ UNCHANGED <<resolver, catalog, completedCourses, startYear, locals>>

NextPermuted == Next \/ RerunPermuted

SpecPermuted == Init /\ [][NextPermuted]_vars

(***************************************************************************)
(* Vocabulary of the properties.                                           *)
(***************************************************************************)
\* The slots of the plan so far, the one being filled included.
SlotsSoFar ==
    IF pc \in {"schedule", "update", "push"}
        THEN Append(schedule, scheduleSlot)
        ELSE schedule

SlotIds(slot) == {slot.courses[k].id : k \in 1..Len(slot.courses)}

ScheduledIds(slots) == UNION {SlotIds(slots[t]) : t \in 1..Len(slots)}

\* The places (slot, position) of the plan that hold course id.
Places(slots, id) ==
    {<<t, k>> \in (1..Len(slots)) \X (1..3) :
        k <= Len(slots[t].courses) /\ slots[t].courses[k].id = id}

RECURSIVE SumCredits(_)
SumCredits(courses) ==
    IF courses = <<>> THEN 0
    ELSE Head(courses).credits + SumCredits(Tail(courses))

\* options_pool identifiers present in the catalog, minus completedCourses.
RequiredSet ==
    {id \in UNION {Range(requirements[r].options_pool) :
                      r \in {q \in 1..Len(requirements) :
                                requirements[q].options_pool # NULL}} :
        CatalogHas(id)}
    \ Range(completedCourses)

FirstTerm == pc = "term" /\ year = 0 /\ semesterIndex = 0

NoRepeats(list) ==
    \A i, j \in 1..Len(list) : list[i] = list[j] => i = j

\* The catalog as the data model describes it: course_id is a unique key and
\* a prerequisite list names each prerequisite once.
CatalogWellFormed ==
    /\ NoRepeats([i \in 1..Len(catalog) |-> catalog[i].course_id])
    /\ \A i \in 1..Len(catalog) : NoRepeats(PrereqsOrEmpty(catalog[i]))

(***************************************************************************)
(* C1: a course is in the slot of term t only if each of its prerequisites *)
(* is in completedCourses or is in a slot of a strictly earlier term.      *)
(* Stated for the catalogs of the data model.                              *)
(***************************************************************************)
C1_PrerequisitesEarlier ==
    CatalogWellFormed =>
    \A t \in 1..Len(SlotsSoFar) :
        \A id \in SlotIds(SlotsSoFar[t]) :
            \A p \in Range(PrereqsOrEmpty(courseLookup(id))) :
                \/ Includes(completedCourses, p)
                \/ p \in ScheduledIds(SubSeq(SlotsSoFar, 1, t - 1))

(***************************************************************************)
(* C2: the unmet-prerequisite counter of every catalog course is >= 0 in   *)
(* every state of a run.  Stated for the catalogs of the data model.       *)
(***************************************************************************)
C2_CounterNonNegative ==
    CatalogWellFormed =>
    \A id \in DOMAIN prereqStatus : prereqStatus[id] >= 0

(***************************************************************************)
(* C3: in every slot, also while it is being filled, credits is the sum of *)
(* the credits of the slot's courses and is at most MAX_CREDITS.           *)
(***************************************************************************)
C3_SlotCreditsWithinCap ==
    \A t \in 1..Len(SlotsSoFar) :
        /\ SlotsSoFar[t].credits = SumCredits(SlotsSoFar[t].courses)
        /\ SlotsSoFar[t].credits <= MAX_CREDITS

\* A slot filled to the cap by two courses while a third eligible course was
\* refused.
C3_Witness ==
    /\ pc = "update"
    /\ Len(eligibleCourses) = 3
    /\ Len(scheduleSlot.courses) = 2
    /\ scheduleSlot.credits = MAX_CREDITS

(***************************************************************************)
(* C4: no course identifier is in the plan more than once, neither twice   *)
(* in one slot nor in two slots.                                           *)
(***************************************************************************)
C4_NoCourseTwice ==
    \A id \in ScheduledIds(SlotsSoFar) :
        Cardinality(Places(SlotsSoFar, id)) = 1

\* A returned plan with three courses in three different slots.
C4_Witness ==
    /\ pc = "done"
    /\ Cardinality(ScheduledIds(result.schedule)) = 3
    /\ Cardinality({t \in 1..Len(result.schedule) :
                       result.schedule[t].courses # <<>>}) = 3

(***************************************************************************)
(* C5: every course in a slot has the slot's semester label in its         *)
(* semesters_offered; a course without offering terms is never scheduled.  *)
(***************************************************************************)
C5_OfferedInItsTerm ==
    \A t \in 1..Len(SlotsSoFar) :
        \A id \in SlotIds(SlotsSoFar[t]) :
            /\ courseLookup(id).semesters_offered # NULL
            /\ Includes(courseLookup(id).semesters_offered,
                        SlotsSoFar[t].semester)

\* A returned plan with a course in a Spring slot, while a required course
\* with no semesters_offered and one with an empty list were left out.
C5_Witness ==
    /\ pc = "done"
    /\ \E t \in 1..Len(result.schedule) :
          /\ result.schedule[t].semester = "Spring"
          /\ result.schedule[t].courses # <<>>
    /\ \E a, b \in Range(result.unmet_requirements) :
          /\ courseLookup(a).semesters_offered = NULL
          /\ courseLookup(b).semesters_offered = <<>>

(***************************************************************************)
(* C6: on return every course of the required set is in exactly one slot   *)
(* or in unmet_requirements, not both, and nothing else is in either.      *)
(***************************************************************************)
C6_ScheduledOrUnmet ==
    pc = "done" =>
        LET scheduled == ScheduledIds(result.schedule)
            unmet == Range(result.unmet_requirements)
        IN  /\ scheduled \cup unmet = RequiredSet
            /\ scheduled \cap unmet = {}
            /\ \A id \in scheduled :
                  Cardinality(Places(result.schedule, id)) = 1
            /\ NoRepeats(result.unmet_requirements)

\* A returned plan with a scheduled course and an unmet one, for requirements
\* that also name an identifier outside the required set.
C6_Witness ==
    /\ pc = "done"
    /\ ScheduledIds(result.schedule) # {}
    /\ result.unmet_requirements # <<>>
    /\ \E r \in 1..Len(requirements) :
          /\ requirements[r].options_pool # NULL
          /\ \E id \in Range(requirements[r].options_pool) : id \notin RequiredSet

TermOfSlot(slots, i) ==
    /\ slots[i].year = startYear + ((i - 1) \div Len(semesters))
    /\ slots[i].semester = semesters[((i - 1) % Len(semesters)) + 1]

C8_SlotsInOrder ==
    /\ \A i \in 1..Len(schedule) : TermOfSlot(schedule, i)
    /\ pc = "done" =>
          /\ Len(result.schedule) = NumYears * Len(semesters)
          /\ \A i \in 1..Len(result.schedule) : TermOfSlot(result.schedule, i)

C8_TerminatesWithEightSlots == []C8_SlotsInOrder /\ <>(pc = "done")

\* A returned plan with an empty slot before a slot with a course.
C8_Witness ==
    /\ pc = "done"
    /\ \E t, u \in 1..Len(result.schedule) :
          /\ t < u
          /\ result.schedule[t].courses = <<>>
          /\ result.schedule[u].courses # <<>>

(***************************************************************************)
(* C9: a required course of more than MAX_CREDITS credits is never in a    *)
(* slot and is reported in unmet_requirements, whatever its prerequisites  *)
(* and offering terms.                                                     *)
(***************************************************************************)
C9_OversizedCourseUnmet ==
    /\ \A id \in ScheduledIds(SlotsSoFar) :
          courseLookup(id).credits <= MAX_CREDITS
    /\ pc = "done" =>
          \A id \in RequiredSet :
              courseLookup(id).credits > MAX_CREDITS =>
                  /\ Includes(result.unmet_requirements, id)
                  /\ id \notin ScheduledIds(result.schedule)

\* A returned plan without a required course of 20 credits that is offered
\* in both terms and whose only prerequisite was scheduled before.
C9_Witness ==
    /\ pc = "done"
    /\ \E id \in Range(result.unmet_requirements) :
          /\ courseLookup(id).credits > MAX_CREDITS
          /\ courseLookup(id).semesters_offered = <<"Fall", "Spring">>
          /\ Len(PrereqsOrEmpty(courseLookup(id))) = 1
          /\ courseLookup(id).prerequisites[1] \in ScheduledIds(result.schedule)
          /\ prereqStatus[id] = 0

(***************************************************************************)
(* C10: a course listed in completedCourses is never in a slot, and before *)
(* the first term a required course all of whose prerequisites are catalog *)
(* courses listed in completedCourses has counter exactly 0.  Stated for   *)
(* the catalogs of the data model.                                         *)
(***************************************************************************)
C10_PreSeededCounterZero ==
    CatalogWellFormed =>
        /\ \A id \in ScheduledIds(SlotsSoFar) : ~Includes(completedCourses, id)
        /\ FirstTerm =>
              \A id \in Range(coursePool) :
                  (\A p \in Range(PrereqsOrEmpty(courseLookup(id))) :
                      CatalogHas(p) /\ Includes(completedCourses, p))
                  => prereqStatus[id] = 0

(***************************************************************************)
(* C11: within a term the sorted eligible list is walked to its end: a     *)
(* course is scheduled exactly when it fits the credits accumulated by the *)
(* courses scheduled before it, also after a course was skipped, and a     *)
(* skipped course stays in the pool.                                       *)
(***************************************************************************)
\* The credits of the slot when the k-th eligible course is considered.
RECURSIVE CreditsBefore(_)
CreditsBefore(k) ==
    IF k <= 1 THEN 0
    ELSE CreditsBefore(k - 1)
         + (IF eligibleCourses[k - 1].course_id \in SlotIds(scheduleSlot)
                THEN eligibleCourses[k - 1].credits ELSE 0)

\* The walk of the eligible list has considered every course of it.
WalkDone == pc \in {"update", "push"}

C11_WalkToTheEnd ==
    /\ pc \in {"schedule", "update", "push"} =>
          \A k \in 1..(ei - 1) :
              eligibleCourses[k].course_id \in SlotIds(scheduleSlot)
              <=> CreditsBefore(k) + eligibleCourses[k].credits <= MAX_CREDITS
    /\ WalkDone => ei = Len(eligibleCourses) + 1
    /\ pc = "push" =>
          \A k \in 1..Len(eligibleCourses) :
              eligibleCourses[k].course_id \notin SlotIds(scheduleSlot)
              => Includes(coursePool, eligibleCourses[k].course_id)

\* The first of three eligible courses was scheduled, the second skipped and
\* the third, which fits, scheduled; the skipped one is still in the pool.
C11_Witness ==
    /\ pc = "push"
    /\ Len(eligibleCourses) = 3
    /\ eligibleCourses[2].course_id \notin SlotIds(scheduleSlot)
    /\ scheduledThisSemester =
          <<eligibleCourses[1].course_id, eligibleCourses[3].course_id>>
    /\ Includes(coursePool, eligibleCourses[2].course_id)

(***************************************************************************)
(* C12: a term that schedules nothing while courses are left in the pool   *)
(* does not end the run: the run still returns 8 slots, and in a later     *)
(* term every pool course that is offered in it, has counter 0 and fits    *)
(* the credits of the slot at its turn is scheduled.                       *)
(***************************************************************************)
\* The pushed slots without course that were pushed with a non-empty pool:
\* the pool only shrinks, so it was non-empty when a later slot has a course
\* or when it is non-empty now.
StalledTerms ==
    {t \in 1..Len(schedule) :
        /\ schedule[t].courses = <<>>
        /\ \/ coursePool # <<>>
           \/ \E u \in (t + 1)..Len(SlotsSoFar) : SlotsSoFar[u].courses # <<>>}

\* The walk of the term has just ended: pool and counters are still those of
\* the start of the term.
WalkJustDone ==
    \/ pc = "update" /\ ui = 1
    \/ pc = "push" /\ scheduledThisSemester = <<>>

\* The position of the course in the sorted eligible list of the term.
Turn(id) == CHOOSE k \in 1..Len(eligibleCourses) : eligibleCourses[k].course_id = id

C12_StallDoesNotStop ==
    StalledTerms # {} =>
       /\ pc \in {"return", "done"} => Len(schedule) = NumYears * Len(semesters)
       /\ WalkJustDone =>
             \A i \in 1..Len(coursePool) :
                LET course == courseLookup(coursePool[i]) IN
                IsEligible(course, scheduleSlot.semester) =>
                   /\ \E k \in 1..Len(eligibleCourses) :
                         eligibleCourses[k].course_id = course.course_id
                   /\ CreditsBefore(Turn(course.course_id)) + course.credits
                         <= MAX_CREDITS
                      => course.course_id \in SlotIds(scheduleSlot)

\* A course was scheduled, the next term scheduled nothing although the pool
\* was not empty, and a later term scheduled a course of the pool.
C12_Witness ==
    /\ pc = "done"
    /\ \E t \in StalledTerms :
          /\ \E u \in 1..(t - 1) : schedule[u].courses # <<>>
          /\ \E u \in (t + 1)..Len(schedule) : schedule[u].courses # <<>>

(***************************************************************************)
(* C13: getRequirements throws its not-found error exactly when none of    *)
(* the supplied non-blank program names is the name of a program; it then  *)
(* returns nothing and sends neither the requirements query nor the        *)
(* catalog query.  When a name resolves it returns the requirements of the *)
(* resolved programs and the whole catalog.                                *)
(***************************************************************************)
SuppliedNames == {major, minor, concentration} \ {NoName, ""}

NoneResolves ==
    \A name \in SuppliedNames : \A p \in Range(db.Programs) : p.name # name

\* The rows of Requirements of the programs whose name was supplied.
RequirementsOfSupplied ==
    SelectSeq(db.Requirements,
              LAMBDA r : \E p \in Range(db.Programs) :
                            p.program_id = r.program_id /\ p.name \in SuppliedNames)

C13_NotFoundOrBoth ==
    /\ NoneResolves =>
          /\ rpc \in {"start", "thrown"}
          /\ outcome.kind \in {"none", "Error"}
          /\ rpc = "thrown" =>
                outcome = Thrown("No programs found for the selected options.")
          /\ \A k \in 1..Len(queries) : queries[k] = "programIds"
    /\ ~NoneResolves =>
          /\ rpc # "thrown"
          /\ outcome.kind \in {"none", "value"}
          /\ rpc = "done" =>
                /\ outcome.kind = "value"
                /\ Len(outcome.requirements) = Len(RequirementsOfSupplied)
                /\ \A k \in 1..Len(outcome.requirements) :
                      /\ outcome.requirements[k].requirement_id
                            = RequirementsOfSupplied[k].requirement_id
                      /\ outcome.requirements[k].program_id
                            = RequirementsOfSupplied[k].program_id
                /\ outcome.catalog = db.Courses
                /\ queries = <<"programIds", "requirements", "catalog">>

\* Names were supplied and programs exist, but no supplied name is one of them.
C13_Witness ==
    /\ rpc = "thrown"
    /\ SuppliedNames # {}
    /\ db.Programs # <<>>
    /\ db.Requirements # <<>>
    /\ db.Courses # <<>>

(***************************************************************************)
(* C14: greedy maximality of a term.  When the walk of a term has ended,   *)
(* every pool course that was eligible at the start of the term (offered   *)
(* in it, counter 0) and is not in the slot has more credits than the slot *)
(* has room left.                                                          *)
(***************************************************************************)
C14_GreedyMaximal ==
    WalkJustDone =>
       \A i \in 1..Len(coursePool) :
          LET course == courseLookup(coursePool[i]) IN
          (/\ IsEligible(course, scheduleSlot.semester)
           /\ course.course_id \notin SlotIds(scheduleSlot))
          => course.credits > MAX_CREDITS - scheduleSlot.credits

\* A term ends with room left in its slot and an eligible course outside it.
C14_Witness ==
    /\ pc = "update"
    /\ ui = 1
    /\ scheduleSlot.credits < MAX_CREDITS
    /\ \E i \in 1..Len(coursePool) :
          /\ IsEligible(courseLookup(coursePool[i]), scheduleSlot.semester)
          /\ coursePool[i] \notin SlotIds(scheduleSlot)
          /\ courseLookup(coursePool[i]).credits <= MAX_CREDITS

(***************************************************************************)
(* C15: at the start of every term the counter of each catalog course is   *)
(* the number of its prerequisites that are neither in completedCourses    *)
(* nor scheduled in an earlier term, also when prerequisite lists,         *)
(* completedCourses or the catalog repeat identifiers; so a pool course    *)
(* whose prerequisites are all completed or scheduled has counter 0.       *)
(***************************************************************************)
\* The entries of the course's prerequisite list that are still unmet.
UnmetPrerequisites(course) ==
    LET prereqs == PrereqsOrEmpty(course) IN
    {k \in 1..Len(prereqs) :
        /\ ~Includes(completedCourses, prereqs[k])
        /\ prereqs[k] \notin ScheduledIds(schedule)}

\* Every completed identifier is a catalog course (the pre-seeding skips the
\* others, lines 100-101).
CompletedInCatalog ==
    \A i \in 1..Len(completedCourses) : CatalogHas(completedCourses[i])

C15_CounterIsUnmetCount ==
    (pc = "term" /\ CompletedInCatalog) =>
       /\ \A k \in 1..Len(catalog) :
             prereqStatus[catalog[k].course_id]
                = Cardinality(UnmetPrerequisites(courseLookup(catalog[k].course_id)))
       /\ \A i \in 1..Len(coursePool) :
             UnmetPrerequisites(courseLookup(coursePool[i])) = {}
             => prereqStatus[coursePool[i]] = 0

(***************************************************************************)
(* C16: the order of the requirements and of the identifiers inside each   *)
(* options_pool is not significant: a call with them permuted, the other   *)
(* arguments unchanged, yields the same set of courses in each slot and    *)
(* the same set of unmet requirements.                                     *)
(***************************************************************************)
SameSlotSets(a, b) ==
    /\ Len(a) = Len(b)
    /\ \A t \in 1..Len(a) : SlotIds(a[t]) = SlotIds(b[t])

\* The second call, with permuted requirements, has returned.
PermutedDone == pc = "done" /\ runs > 1 /\ prevResult # NoPlan

C16_OrderNotSignificant ==
    PermutedDone =>
       /\ SameSlotSets(prevResult.schedule, result.schedule)
       /\ Range(prevResult.unmet_requirements) = Range(result.unmet_requirements)

\* The number of terms a course is offered in, 0 when it has no list.
OfferCount(course) ==
    IF course.semesters_offered = NULL THEN 0 ELSE Len(course.semesters_offered)

\* No two required courses that are offered at all are offered in the same
\* number of terms: the sort of line 141 leaves nothing to the pool's order.
NoTies ==
    \A a, b \in RequiredSet :
        (/\ a # b
         /\ OfferCount(courseLookup(a)) > 0
         /\ OfferCount(courseLookup(a)) = OfferCount(courseLookup(b)))
        => FALSE

\* C16 amended: permuting yields the same courses in the plan and the unmet
\* list taken together, and the same slots and the same unmet set when no
\* two offered required courses have the same number of offering terms.
C16_OrderBreaksTiesOnly ==
    PermutedDone =>
       /\ ScheduledIds(prevResult.schedule) \cup Range(prevResult.unmet_requirements)
             = ScheduledIds(result.schedule) \cup Range(result.unmet_requirements)
       /\ NoTies =>
             /\ SameSlotSets(prevResult.schedule, result.schedule)
             /\ Range(prevResult.unmet_requirements)
                   = Range(result.unmet_requirements)

\* Two courses without tie were eligible in the same term and did not fit
\* together, in a call whose pool is in another order than the first call's.
C16_Witness ==
    /\ PermutedDone
    /\ NoTies
    /\ requirements \notin RequirementLists
    /\ \E a, b \in ScheduledIds(result.schedule) :
          /\ a # b
          /\ courseLookup(a).semesters_offered = <<"Fall">>
          /\ courseLookup(b).semesters_offered = <<"Fall", "Spring">>
          /\ courseLookup(a).credits + courseLookup(b).credits > MAX_CREDITS

(***************************************************************************)
(* C17: generatePlan leaves its arguments unchanged: no step of a run      *)
(* changes the catalog (records, lists and order), the requirements or     *)
(* completedCourses; only the pool, the counters and the slots change.     *)
(***************************************************************************)
C17_InputsUnchanged == [][inputs' = inputs]_vars

\* A run has returned after its sort put the second catalog course, offered
\* in fewer terms, before the first one, and it scheduled both.
C17_Witness ==
    /\ pc = "done"
    /\ Len(catalog) >= 2
    /\ OfferCount(catalog[2]) < OfferCount(catalog[1])
    /\ \E t \in 1..Len(schedule) :
          /\ Len(schedule[t].courses) >= 2
          /\ schedule[t].courses[1].id = catalog[2].course_id
          /\ schedule[t].courses[2].id = catalog[1].course_id

(***************************************************************************)
(* C18: every member of the scheduling pool is a catalog course and is not *)
(* in completedCourses, at every point of a run, whatever the requirements *)
(* and completedCourses name; so every course of the eligible list is a    *)
(* record of the catalog.                                                  *)
(***************************************************************************)
C18_PoolInCatalogNotCompleted ==
    /\ \A i \in 1..Len(coursePool) :
          /\ CatalogHas(coursePool[i])
          /\ ~Includes(completedCourses, coursePool[i])
    /\ \A k \in 1..Len(eligibleCourses) :
          /\ eligibleCourses[k] \in Range(catalog)
          /\ pc = "schedule" => Includes(coursePool, eligibleCourses[k].course_id)

\* The pool has been built and pre-seeded from requirements with a missing
\* options_pool and an identifier that is not in the catalog, and from a
\* completed identifier that is not in the catalog either.
C18_Witness ==
    /\ pc = "schedule"
    /\ coursePool # <<>>
    /\ \E k \in 1..Len(requirements) : requirements[k].options_pool = NULL
    /\ \E k \in 1..Len(requirements) :
          /\ requirements[k].options_pool # NULL
          /\ \E n \in 1..Len(requirements[k].options_pool) :
                ~CatalogHas(requirements[k].options_pool[n])
    /\ \E i \in 1..Len(completedCourses) :
          /\ ~CatalogHas(completedCourses[i])
          /\ completedCourses[i] \notin Range(AddRequirements(<<>>, requirements))

(***************************************************************************)
(* C19: the courses of every slot are in non-decreasing order of their     *)
(* number of offering terms, courses with the same number in the order of  *)
(* the pool; the eligible courses of a term are considered in that order.  *)
(***************************************************************************)
\* The position of a course in the pool as it was built (lines 79-93); the
\* pool keeps this order when courses are removed from it.
PoolPosition(id) ==
    CHOOSE n \in 1..Len(requiredCourseIDs) : requiredCourseIDs[n] = id

\* Course a does not come after course b in the order of line 141.
InSortOrder(a, b) ==
    \/ OfferCount(courseLookup(a)) < OfferCount(courseLookup(b))
    \/ /\ OfferCount(courseLookup(a)) = OfferCount(courseLookup(b))
       /\ PoolPosition(a) < PoolPosition(b)

C19_SlotsInSortOrder ==
    /\ \A t \in 1..Len(SlotsSoFar) :
          \A k, n \in 1..Len(SlotsSoFar[t].courses) :
              k < n => InSortOrder(SlotsSoFar[t].courses[k].id,
                                   SlotsSoFar[t].courses[n].id)
    /\ pc = "schedule" =>
          \A k, n \in 1..Len(eligibleCourses) :
              k < n => InSortOrder(eligibleCourses[k].course_id,
                                   eligibleCourses[n].course_id)

\* Of three eligible courses the one offered in two terms, first in the pool,
\* is considered last, and the two offered in one term are scheduled in the
\* order of the pool, which is not the order of the catalog.
C19_Witness ==
    /\ pc = "schedule"
    /\ coursePool = <<"Z", "Y", "X">>
    /\ Len(eligibleCourses) = 3
    /\ eligibleCourses[3].course_id = "Z"
    /\ ei = 3
    /\ scheduledThisSemester = <<"Y", "X">>

(***************************************************************************)
(* C20: prerequisites are not pulled into the plan.  With completedCourses *)
(* free of repetition and unique catalog identifiers, a required course    *)
(* with a prerequisite that is neither required nor completed (in the      *)
(* catalog or not) is in no slot and ends in unmet_requirements, and so    *)
(* does every required course that depends on such a course.               *)
(***************************************************************************)
CatalogIdsUnique == NoRepeats([i \in 1..Len(catalog) |-> catalog[i].course_id])

\* The required courses with a prerequisite outside the plan's reach.
MissingPrerequisite ==
    {id \in RequiredSet :
        \E p \in Range(PrereqsOrEmpty(courseLookup(id))) :
            p \notin RequiredSet /\ ~Includes(completedCourses, p)}

\* Those courses and the required courses that depend on them in at most n
\* steps.
RECURSIVE BlockedWithin(_)
BlockedWithin(n) ==
    IF n = 0 THEN MissingPrerequisite
    ELSE BlockedWithin(n - 1)
         \cup {id \in RequiredSet :
                  \E p \in Range(PrereqsOrEmpty(courseLookup(id))) :
                      p \in BlockedWithin(n - 1)}

Blocked == BlockedWithin(Cardinality(RequiredSet))

C20_BlockedNeverScheduled ==
    (NoRepeats(completedCourses) /\ CatalogIdsUnique) =>
       /\ pc # "start" => ScheduledIds(SlotsSoFar) \cap Blocked = {}
       /\ pc = "done" =>
             /\ Len(result.schedule) = NumYears * Len(semesters)
             /\ Blocked \subseteq Range(result.unmet_requirements)

\* A run has returned with a required course unmet for a prerequisite that
\* is not in the catalog and another one unmet because it depends on it.
C20_Witness ==
    /\ pc = "done"
    /\ NoRepeats(completedCourses)
    /\ CatalogIdsUnique
    /\ \E a \in MissingPrerequisite :
          /\ \E p \in Range(PrereqsOrEmpty(courseLookup(a))) : ~CatalogHas(p)
          /\ \E b \in Blocked \ MissingPrerequisite :
                {a, b} \subseteq Range(result.unmet_requirements)

====
